---- MODULE Spec2Model ----
(***************************************************************************)
(* Model of the Rigol DS8000-R oscilloscope driver and the Rigol DG5000    *)
(* Pro generator driver: the IEEE-488.2 block decoding done by the raw     *)
(* trace read and by the screen capture, the conversion of raw samples to  *)
(* volts and seconds, and the traffic each driver operation puts on its    *)
(* instrument session.                                                     *)
(*                                                                         *)
(* Bytes are the integers 0..255.  Floating-point values are modelled as   *)
(* exact numbers: integers, and for the time axis fractions with a common  *)
(* denominator.                                                            *)
(***************************************************************************)
EXTENDS Integers, Sequences, FiniteSets, TLC

\* ------------------------------------------------------------------------
\* Bounds of the model
\* ------------------------------------------------------------------------

\* longest length field generated after the digit-count byte
MaxField == 2
\* longest payload generated after the length field
MaxPayload == 2
\* longest sample block generated, in bytes
MaxSamples == 4
\* largest number of points a generated preamble declares
MaxPoints == 4
\* largest number of responses left unread on a session before the model
\* stops issuing further commands that leave one behind
MaxUndrained == 2
\* largest format and acquisition-type code a generated preamble carries;
\* the smallest is -MaxCode - 1
MaxCode == 3

\* ------------------------------------------------------------------------
\* Results of operations that can raise
\* ------------------------------------------------------------------------

Ok(v) == [ok |-> TRUE, err |-> "", val |-> v]

Err(e) == [ok |-> FALSE, err |-> e, val |-> <<>>]

IntOk(v) == [ok |-> TRUE, err |-> "", val |-> v]

IntErr(e) == [ok |-> FALSE, err |-> e, val |-> 0]

\* ------------------------------------------------------------------------
\* Python primitives used by the decoders
\* ------------------------------------------------------------------------

Min(a, b) == IF a < b THEN a ELSE b

\* s[a:b] of a bytes object, 0-based, a >= 0 and b >= 0, clamped to the end
Slice(s, a, b) == SubSeq(s, a + 1, Min(b, Len(s)))

\* the bytes that bytes.strip() and int() treat as white space
PyWhitespace == {9, 10, 11, 12, 13, 32}

AsciiDigits == 48..57

\* index of the first byte that is not white space, Len(s)+1 if there is none
FirstNonWs(s) ==
  IF \A i \in 1..Len(s) : s[i] \in PyWhitespace
  THEN Len(s) + 1
  ELSE CHOOSE i \in 1..Len(s) :
         /\ s[i] \notin PyWhitespace
         /\ \A j \in 1..(i - 1) : s[j] \in PyWhitespace

\* index of the last byte that is not white space, 0 if there is none
LastNonWs(s) ==
  IF \A i \in 1..Len(s) : s[i] \in PyWhitespace
  THEN 0
  ELSE CHOOSE i \in 1..Len(s) :
         /\ s[i] \notin PyWhitespace
         /\ \A j \in (i + 1)..Len(s) : s[j] \in PyWhitespace

\* bytes.strip(): removes leading and trailing white space
strip(s) == SubSeq(s, FirstNonWs(s), LastNonWs(s))

\* bytes.decode("ascii"): fails on any byte outside 0..127
decode_ascii(s) ==
  IF \E i \in 1..Len(s) : s[i] > 127
  THEN Err("UnicodeDecodeError")
  ELSE Ok(s)

RECURSIVE DecimalValue(_)
\* value of a string of digits and underscores, the underscores skipped
DecimalValue(s) ==
  IF s = <<>> THEN 0
  ELSE LET front == SubSeq(s, 1, Len(s) - 1)
           c == s[Len(s)]
       IN IF c = 95 THEN DecimalValue(front)
          ELSE DecimalValue(front) * 10 + (c - 48)

\* the body of an int() literal: digits, single underscores between digits
IsDigitBody(s) ==
  /\ Len(s) > 0
  /\ \A i \in 1..Len(s) : s[i] \in AsciiDigits \cup {95}
  /\ s[1] \in AsciiDigits
  /\ s[Len(s)] \in AsciiDigits
  /\ \A i \in 1..(Len(s) - 1) : ~(s[i] = 95 /\ s[i + 1] = 95)

\* the value of the digit body of an int() literal, negated after a '-'
int_body(body, neg) ==
  IF IsDigitBody(body)
  THEN IntOk(IF neg THEN 0 - DecimalValue(body) ELSE DecimalValue(body))
  ELSE IntErr("ValueError")

\* an int() literal without the white space around it: an optional sign,
\* then the digit body
int_signed(t) ==
  IF Len(t) > 0 /\ t[1] \in {43, 45}
  THEN int_body(SubSeq(t, 2, Len(t)), t[1] = 45)
  ELSE int_body(t, FALSE)

\* a result with a failure turned into the number zero
ZeroIfError(r) == IF r.ok THEN r ELSE IntOk(0)

\* a faulty int(): a text that is no number reads as zero
LenientInt(s) == ZeroIfError(int_signed(strip(s)))

\* int(text): white space around, an optional sign, then the digit body
int(s) == int_signed(strip(s))

\* the text of a decoded byte string as an integer
int_of_decoded(d) == IF d.ok THEN int(d.val) ELSE IntErr(d.err)

\* int(bytes.decode("ascii"))
int_of_bytes(s) == int_of_decoded(decode_ascii(s))

\* a block whose header cannot be read
BadBlock(e) == [ok |-> FALSE, err |-> e, l |-> 0, data |-> <<>>]

\* data = bytestream[2 + n:].strip(), with the length l read before
decode_data(bytestream, n, l) ==
  IF ~l.ok THEN BadBlock(l.err)
  ELSE [ok |-> TRUE, err |-> "", l |-> l.val,
        data |-> strip(Slice(bytestream, 2 + n, Len(bytestream)))]

\* l = int(bytestream[2:2 + n].decode("ascii")), with the digit count n read
\* before
decode_length(bytestream, n) ==
  IF ~n.ok THEN BadBlock(n.err)
  ELSE decode_data(bytestream, n.val,
                   int_of_bytes(Slice(bytestream, 2, 2 + n.val)))

\* the header fields and the stripped rest of a block response
\*   n = int(bytestream[1:2].decode("ascii"))
\*   l = int(bytestream[2:2 + n].decode("ascii"))
\*   data = bytestream[2 + n:].strip()
decode_block(bytestream) ==
  decode_length(bytestream, int_of_bytes(Slice(bytestream, 1, 2)))

\* size in bytes of one sample of a numpy dtype
ItemSize(dtype) == IF dtype = "uint8" THEN 1 ELSE 2

\* sample k (from 1) of a buffer; uint16 is little-endian
Item(buf, dtype, k) ==
  IF dtype = "uint8" THEN buf[k]
  ELSE buf[2 * k - 1] + 256 * buf[2 * k]

\* a faulty np.frombuffer: a count that is not positive is refused
frombuffer_positive(buf, dtype, count) ==
  IF count <= 0 \/ Len(buf) < count * ItemSize(dtype)
  THEN Err("ValueError")
  ELSE Ok([k \in 1..count |-> Item(buf, dtype, k)])

\* np.frombuffer(buf, dtype=dtype, count=count)
frombuffer(buf, dtype, count) ==
  IF count < 0
  THEN IF Len(buf) % ItemSize(dtype) # 0
       THEN Err("ValueError")
       ELSE Ok([k \in 1..(Len(buf) \div ItemSize(dtype)) |-> Item(buf, dtype, k)])
  ELSE IF Len(buf) < count * ItemSize(dtype)
       THEN Err("ValueError")
       ELSE Ok([k \in 1..count |-> Item(buf, dtype, k)])

\* ------------------------------------------------------------------------
\* State
\* ------------------------------------------------------------------------

VARIABLES
  scope,      \* the oscilloscope as the driver's session sees it
  gen,        \* the generator as the driver's session sees it
  files,      \* the files screen_capture writes
  log,        \* what the last operation wrote to and read from its session
  undrained,  \* responses of the generator session that no read has taken
  last,       \* the last operation and its outcome
  callers,    \* the threads inside a raw trace read of the shared driver
  outq,       \* responses of the oscilloscope session that no read has taken
  built       \* the driver object the last constructor call left

vars == <<scope, gen, files, log, undrained, last, callers, outq, built>>

\* ------------------------------------------------------------------------
\* The instrument session: write, ask, read_raw
\* ------------------------------------------------------------------------

\* self.write(cmd): cmd is the command template, ch the channel in its header
\* (0 when it has none) and arg the formatted parameter
write(cmd, ch, arg) == [op |-> "write", cmd |-> cmd, ch |-> ch, arg |-> arg]

\* the read that takes a response
read == [op |-> "read", cmd |-> "", ch |-> 0, arg |-> ""]

\* visa_handle.read_raw()
read_raw == [op |-> "read_raw", cmd |-> "", ch |-> 0, arg |-> ""]

\* self.ask(cmd): one write and one read
ask(cmd, ch) == <<write(cmd, ch, ""), read>>

\* the get of a parameter: ask(get_cmd)
param_get(get_cmd, ch) == ask(get_cmd, ch)

\* the set of a parameter: write(set_cmd.format(token)), nothing is read
param_set(set_cmd, ch, token) == <<write(set_cmd, ch, token)>>

\* the command headers of the two drivers that end in '?'
QueryHeaders ==
  { ":TRIGger:STATus?", ":WAVeform:MODE?", ":WAVeform:FORMat?",
    ":WAVeform:SOURce?", ":WAVeform:DATA?", ":WAVeform:PREamble?",
    ":OUTPut{channel}:SYNC:POLarity?", ":OUTPut{channel}:SYNC:POLarity? {}",
    ":OUTPut{channel}:TRIGger:SLOPe?", ":OUTPut{channel}:TRIGger:SLOPe? {}",
    ":HCOPy:SDUMp:DATA:FORMat?", ":HCOPy:SDUMp:DATA:FORMat? {}",
    ":HCOPy:SDUMp:DATA?" }

\* a write whose header ends in '?': the instrument answers it
IsQuery(e) == e.op = "write" /\ e.cmd \in QueryHeaders

IsRead(e) == e.op \in {"read", "read_raw"}

\* the range of a val_mapping: the tokens the instrument can answer
Tokens(mapping) == {mapping[k] : k \in DOMAIN mapping}

\* the key a val_mapping gives for the token the instrument answers
Inverse(mapping, token) == CHOOSE k \in DOMAIN mapping : mapping[k] = token

\* ------------------------------------------------------------------------
\* Oscilloscope
\* ------------------------------------------------------------------------

TriggerStatus == {"TD", "WAIT", "RUN", "AUTO", "STOP"}

waveform_mode_map == [normal |-> "NORM", maximum |-> "MAX", raw |-> "RAW"]

waveform_format_map == [word |-> "WORD", byte |-> "BYTE", ascii |-> "ASC"]

\* n_o_ch is 4 for every model of the series
ScopeChannels == 1..4

\* a faulty source name: the channels are counted from zero
ChanNameFromZero == <<"CHAN0", "CHAN1", "CHAN2", "CHAN3">>

\* f"CHAN{self.instrument.channel}"
ChanName == <<"CHAN1", "CHAN2", "CHAN3", "CHAN4">>

\* a faulty STOP check: a running acquisition is read too
AnyStatusHalted(status) == TRUE

\* the trace may be read: trigger_status() is "STOP"
is_halted(status) == status = "STOP"

\* Python list[i]: negative i counts from the end
PyIndex(list, i) ==
  IF 0 <= i /\ i < Len(list) THEN Ok(list[i + 1])
  ELSE IF i < 0 /\ 0 - i <= Len(list) THEN Ok(list[Len(list) + i + 1])
  ELSE Err("IndexError")

\* a faulty preamble: the x increment and the x origin change places
get_waveform_preamble_swapped(s) ==
  LET f == s.preamble
      fmt == PyIndex(<<"BYTE", "WORD", "ASC">>, f[1])
      typ == PyIndex(<<"NORM", "MAX", "RAW">>, f[2])
      io == ask(":WAVeform:PREamble?", 0)
  IN IF Len(f) < 10 \/ ~fmt.ok \/ ~typ.ok
     THEN [log |-> io, ok |-> FALSE, err |-> "IndexError"]
     ELSE [log |-> io, ok |-> TRUE, err |-> "",
           format |-> fmt.val, type |-> typ.val,
           points |-> f[3], count |-> f[4],
           xincrement |-> f[6], xorigin |-> f[5], xreference |-> f[7],
           yincrement |-> f[8], yorigin |-> f[9], yreference |-> f[10]]

\* get_waveform_preamble(): the ten fields of the response, in order.  The
\* response is modelled after split(",") and after int() and float() of the
\* fields; a response with fewer than ten fields raises IndexError.
get_waveform_preamble(s) ==
  LET f == s.preamble
      fmt == PyIndex(<<"BYTE", "WORD", "ASC">>, f[1])
      typ == PyIndex(<<"NORM", "MAX", "RAW">>, f[2])
      io == ask(":WAVeform:PREamble?", 0)
  IN IF Len(f) < 1 THEN [log |-> io, ok |-> FALSE, err |-> "IndexError"]
     ELSE IF ~fmt.ok THEN [log |-> io, ok |-> FALSE, err |-> fmt.err]
     ELSE IF Len(f) < 2 THEN [log |-> io, ok |-> FALSE, err |-> "IndexError"]
     ELSE IF ~typ.ok THEN [log |-> io, ok |-> FALSE, err |-> typ.err]
     ELSE IF Len(f) < 10 THEN [log |-> io, ok |-> FALSE, err |-> "IndexError"]
     ELSE [log |-> io, ok |-> TRUE, err |-> "",
           format |-> fmt.val, type |-> typ.val,
           points |-> f[3], count |-> f[4],
           xincrement |-> f[5], xorigin |-> f[6], xreference |-> f[7],
           yincrement |-> f[8], yorigin |-> f[9], yreference |-> f[10]]

\* the session traffic of ScopeArrayRaw.get_raw up to the STOP check
io_status == ask(":TRIGger:STATus?", 0)

\* ... up to the RAW check
io_mode == io_status \o param_get(":WAVeform:MODE?", 0)

\* a faulty transfer: the block is queried and never read
io_data_unread(ch) ==
  io_mode \o param_set(":WAVeform:SOURce {}", 0, ChanName[ch])
          \o <<write(":WAVeform:DATA?", 0, "")>>

\* ... up to the read of the block
io_data(ch) ==
  io_mode \o param_set(":WAVeform:SOURce {}", 0, ChanName[ch])
          \o <<write(":WAVeform:DATA?", 0, ""), read_raw>>

\* ... up to the query of the waveform format
io_format(ch) == io_data(ch) \o param_get(":WAVeform:FORMat?", 0)

\* the dtype of the "Convert to ndarray" step
dtype_of(s) ==
  IF Inverse(waveform_format_map, s.format) = "byte" THEN "uint8" ELSE "uint16"

\* ScopeArrayRaw.get_raw from the read of the block on: h is the header
\* and the stripped payload of the block
read_data(s, ch, h) ==
  IF ~h.ok
  THEN [log |-> io_data(ch), res |-> Err(h.err), dtype |-> "",
        source |-> ChanName[ch]]
  ELSE [log |-> io_format(ch), res |-> frombuffer(h.data, dtype_of(s), h.l),
        dtype |-> dtype_of(s), source |-> ChanName[ch]]

\* a faulty order of the checks: the waveform mode is asked for first, and
\* the trigger status only in RAW mode
ScopeArrayRaw_get_raw_mode_first(s, ch) ==
  IF Inverse(waveform_mode_map, s.mode) # "raw"
  THEN [log |-> param_get(":WAVeform:MODE?", 0), res |-> Err("RuntimeError"),
        dtype |-> "", source |-> s.source]
  ELSE IF ~is_halted(s.trig)
  THEN [log |-> param_get(":WAVeform:MODE?", 0) \o io_status,
        res |-> Err("RuntimeError"), dtype |-> "", source |-> s.source]
  ELSE read_data(s, ch, decode_block(s.block))

\* ScopeArrayRaw.get_raw of channel ch: the session traffic, the outcome and
\* the waveform source the instrument is left with
ScopeArrayRaw_get_raw(s, ch) ==
  IF ~is_halted(s.trig)
  THEN [log |-> io_status, res |-> Err("RuntimeError"), dtype |-> "",
        source |-> s.source]
  ELSE IF Inverse(waveform_mode_map, s.mode) # "raw"
  THEN [log |-> io_mode, res |-> Err("RuntimeError"), dtype |-> "",
        source |-> s.source]
  ELSE read_data(s, ch, decode_block(s.block))

\* a faulty promotion: the array keeps its unsigned type
result_type_unsigned(dtype, scalar) == dtype

\* the dtype of array <op> scalar: a Python float makes the result float64,
\* a Python int leaves the array's unsigned type
result_type(dtype, scalar) == IF scalar = "float" THEN "float64" ELSE dtype

\* a - b in an array of the given dtype: unsigned types wrap around
subtract(dtype, a, b) ==
  IF dtype = "float64" THEN a - b
  ELSE (a - b) % (2 ^ (8 * ItemSize(dtype)))

\* a faulty scaling law: the reference is added instead of subtracted
scale_sample_added(dtype, raw, p) ==
  (raw + p.yreference - p.yorigin) * p.yincrement

\* (raw - p["yreference"] - p["yorigin"]) * p["yincrement"] for one sample
scale_sample(dtype, raw, p) ==
  LET t == result_type(dtype, "float")  \* the preamble values are floats
  IN subtract(t, subtract(t, raw, p.yreference), p.yorigin) * p.yincrement

\* a faulty voltage read: the preamble is queried before the raw trace is read
scale_trace_preamble_first(tr, p) ==
  IF ~p.ok
  THEN [log |-> p.log, res |-> Err(p.err), raw |-> <<>>, source |-> tr.source]
  ELSE IF ~tr.res.ok
  THEN [log |-> p.log \o tr.log, res |-> tr.res, raw |-> <<>>,
        source |-> tr.source]
  ELSE [log |-> p.log \o tr.log,
        res |-> Ok([i \in 1..Len(tr.res.val) |->
                      scale_sample(tr.dtype, tr.res.val[i], p)]),
        raw |-> tr.res.val, source |-> tr.source]

\* ScopeArray.get_raw after trace_raw() returned tr and
\* get_waveform_preamble() returned p
scale_trace(tr, p) ==
  IF ~tr.res.ok
  THEN [log |-> tr.log, res |-> tr.res, raw |-> <<>>, source |-> tr.source]
  ELSE IF ~p.ok
  THEN [log |-> tr.log \o p.log, res |-> Err(p.err), raw |-> tr.res.val,
        source |-> tr.source]
  ELSE [log |-> tr.log \o p.log,
        res |-> Ok([i \in 1..Len(tr.res.val) |->
                      scale_sample(tr.dtype, tr.res.val[i], p)]),
        raw |-> tr.res.val, source |-> tr.source]

\* ScopeArray.get_raw of channel ch: trace_raw(), then the preamble, then the
\* scaling of every sample
ScopeArray_get_raw(s, ch) ==
  scale_trace(ScopeArrayRaw_get_raw(s, ch), get_waveform_preamble(s))

\* a faulty linspace: the samples start one step after start
linspace_late(start, stop, num) ==
  LET div == IF num > 1 THEN num - 1 ELSE 1
  IN IF num < 0 THEN [ok |-> FALSE, err |-> "ValueError", val |-> <<>>, den |-> 1]
     ELSE [ok |-> TRUE, err |-> "",
           val |-> [i \in 1..num |-> start * div + i * (stop - start)],
           den |-> div]

\* np.linspace(start, stop, num) with endpoint=True: num samples from start
\* to stop, both included.  The samples are fractions val[i] / den.
linspace(start, stop, num) ==
  LET div == IF num > 1 THEN num - 1 ELSE 1
  IN IF num < 0 THEN [ok |-> FALSE, err |-> "ValueError", val |-> <<>>, den |-> 1]
     ELSE [ok |-> TRUE, err |-> "",
           val |-> [i \in 1..num |-> start * div + (i - 1) * (stop - start)],
           den |-> div]

\* ParameterTimeAxis.get_raw after get_waveform_preamble() returned p
time_axis(p) ==
  IF ~p.ok
  THEN [log |-> p.log,
        res |-> [ok |-> FALSE, err |-> p.err, val |-> <<>>, den |-> 1]]
  ELSE [log |-> p.log,
        res |-> linspace(p.xorigin, p.xorigin + p.xincrement * p.points, p.points)]

\* ParameterTimeAxis.get_raw
ParameterTimeAxis_get_raw(s) == time_axis(get_waveform_preamble(s))

\* the record of the last operation
Outcome(op, ch, arg, res) ==
  [op |-> op, ch |-> ch, arg |-> arg, ok |-> res.ok, err |-> res.err,
   val |-> res.val, raw |-> <<>>, den |-> 1]

Done(op, ch, arg) == Outcome(op, ch, arg, Ok(<<>>))

\* all sequences over S of length at most k
SeqsUpTo(S, k) == UNION {[1..m -> S] : m \in 0..k}

\* '#', the digit count n, the length in n digits (zero-padded), the payload
Encode(payload, n) ==
  <<35, 48 + n>>
    \o [i \in 1..n |-> 48 + ((Len(payload) \div (10 ^ (n - i))) % 10)]
    \o payload

\* the line terminator the instrument appends, or none
Terminators == {<<>>, <<10>>}

\* the blocks the halted oscilloscope holds in the driver specification
ScopeBlocks ==
  { Encode(<<128, 138>>, 1) \o <<10>>,
    Encode(<<5, 0, 200, 1>>, 1) \o <<10>>,
    <<35, 65, 53, 7>> }

\* the preambles the halted oscilloscope holds in the driver specification
ScopePreambles ==
  { <<0, 2, 2, 1, 1, -5, 0, 4, 0, 128>>,
    <<1, 2, 2, 1, 2, 0, 0, 1, 10, 0>> }

\* ---- oscilloscope operations ----

\* stop(): the acquisition halts and the instrument holds a block and its
\* preamble
stop ==
  /\ \E b \in ScopeBlocks, p \in ScopePreambles :
       scope' = [scope EXCEPT !.trig = "STOP", !.block = b, !.preamble = p]
  /\ log' = <<write(":STOP", 0, "")>>
  /\ last' = Done("stop", 0, "")
  /\ UNCHANGED <<built, callers, outq, gen, files, undrained>>

\* run(): the acquisition runs, in any of the running trigger states
run ==
  /\ \E t \in TriggerStatus \ {"STOP"} : scope' = [scope EXCEPT !.trig = t]
  /\ log' = <<write(":RUN", 0, "")>>
  /\ last' = Done("run", 0, "")
  /\ UNCHANGED <<built, callers, outq, gen, files, undrained>>

\* waveform_mode(v)
waveform_mode_set(v) ==
  /\ scope' = [scope EXCEPT !.mode = waveform_mode_map[v]]
  /\ log' = param_set(":WAVeform:MODE {}", 0, waveform_mode_map[v])
  /\ last' = Done("waveform_mode", 0, v)
  /\ UNCHANGED <<built, callers, outq, gen, files, undrained>>

\* waveform_format(v)
waveform_format_set(v) ==
  /\ scope' = [scope EXCEPT !.format = waveform_format_map[v]]
  /\ log' = param_set(":WAVeform:FORMat {}", 0, waveform_format_map[v])
  /\ last' = Done("waveform_format", 0, v)
  /\ UNCHANGED <<built, callers, outq, gen, files, undrained>>

\* the call of channel ch returned r: the instrument keeps the waveform
\* source the call selected
scope_returns(op, ch, r) ==
  /\ scope' = [scope EXCEPT !.source = r.source]
  /\ log' = r.log
  /\ last' = [Outcome(op, ch, "", r.res) EXCEPT
                !.raw = IF op = "trace" THEN r.raw ELSE <<>>]
  /\ UNCHANGED <<built, callers, outq, gen, files, undrained>>

\* ch[k].trace_raw()
trace_raw_get(ch) == scope_returns("trace_raw", ch, ScopeArrayRaw_get_raw(scope, ch))

\* ch[k].trace()
trace_get(ch) == scope_returns("trace", ch, ScopeArray_get_raw(scope, ch))

\* timebase_axis() returned r
axis_returns(r) ==
  /\ log' = r.log
  /\ last' = [Outcome("timebase_axis", 0, "", r.res) EXCEPT !.den = r.res.den]
  /\ UNCHANGED <<built, callers, outq, scope, gen, files, undrained>>

\* timebase_axis()
timebase_axis_get == axis_returns(ParameterTimeAxis_get_raw(scope))

\* the dictionary get_waveform_preamble() returns
preamble_dict(p) ==
  [format |-> p.format, type |-> p.type, points |-> p.points,
   count |-> p.count, xincrement |-> p.xincrement, xorigin |-> p.xorigin,
   xreference |-> p.xreference, yincrement |-> p.yincrement,
   yorigin |-> p.yorigin, yreference |-> p.yreference]

\* get_waveform_preamble() returned p
preamble_returns(p) ==
  /\ log' = p.log
  /\ last' = Outcome("get_waveform_preamble", 0, "",
                     IF p.ok THEN Ok(preamble_dict(p)) ELSE Err(p.err))
  /\ UNCHANGED <<built, callers, outq, scope, gen, files, undrained>>

\* get_waveform_preamble() called by the user of the driver
get_waveform_preamble_call == preamble_returns(get_waveform_preamble(scope))

\* the methods class RigolDS8000R defines
ScopeMethods ==
  {"trigger_status", "get_waveform_preamble", "autoscale", "clear", "run",
   "stop", "single", "trigger_force", "reset"}

\* driver.<name>(ch) for a name that may not be a method of the driver: the
\* attribute lookup fails before anything is written to the session.  A
\* name the class defines is called through its own operation.
call_method(name, ch) ==
  /\ name \notin ScopeMethods
  /\ log' = <<>>
  /\ last' = Outcome(name, ch, "", Err("AttributeError"))
  /\ UNCHANGED <<scope, gen, files, undrained, callers, outq, built>>

\* driver.get_trace(ch), as the test of the driver calls it
get_trace(ch) == call_method("get_trace", ch)

\* ---- value-mapped parameters of the oscilloscope ----

timebase_mode_map == [yt |-> "MAIN", xy |-> "XY", roll |-> "ROLL"]

timebase_href_mode_map ==
  [center |-> "CENT", left_border |-> "LB", right_border |-> "RB",
   trigger |-> "TRIG", user |-> "USER"]

units_map ==
  [volt |-> "VOLT", watt |-> "WATT", ampere |-> "AMP", unknown |-> "UNKN"]

impedance_map == ("50 Ohm" :> "FIFT") @@ ("1 MOhm" :> "OMEG")

\* a faulty set: the command is written as a query and assigns nothing
scope_set_query(s, cmd, ch, token, op, v) ==
  /\ scope' = scope
  /\ log' = param_set(cmd, ch, token)
  /\ last' = Done(op, ch, v)
  /\ UNCHANGED <<gen, files, undrained, callers, outq, built>>

\* the set of a parameter: the token of v is written and the oscilloscope,
\* which stores it, becomes s
scope_set(s, cmd, ch, token, op, v) ==
  /\ scope' = s
  /\ log' = param_set(cmd, ch, token)
  /\ last' = Done(op, ch, v)
  /\ UNCHANGED <<gen, files, undrained, callers, outq, built>>

\* the get of a parameter: the stored token is asked for and mapped back
scope_get(cmd, ch, mapping, stored, op) ==
  /\ log' = param_get(cmd, ch)
  /\ last' = IF stored \in Tokens(mapping)
             THEN Done(op, ch, Inverse(mapping, stored))
             ELSE Outcome(op, ch, "", Err("KeyError"))
  /\ UNCHANGED <<scope, gen, files, undrained, callers, outq, built>>

\* timebase_mode(v)
timebase_mode_set(v) ==
  scope_set([scope EXCEPT !.timebase_mode = timebase_mode_map[v]],
            ":TIMebase:MODE {}", 0, timebase_mode_map[v], "timebase_mode", v)

\* timebase_mode()
timebase_mode_get ==
  scope_get(":TIMebase:MODE?", 0, timebase_mode_map, scope.timebase_mode,
            "timebase_mode?")

\* timebase_href_mode(v)
timebase_href_mode_set(v) ==
  scope_set([scope EXCEPT !.timebase_href_mode = timebase_href_mode_map[v]],
            ":TIMebase:HREFerence:MODE {}", 0, timebase_href_mode_map[v],
            "timebase_href_mode", v)

\* timebase_href_mode()
timebase_href_mode_get ==
  scope_get(":TIMebase:HREFerence:MODE?", 0, timebase_href_mode_map,
            scope.timebase_href_mode, "timebase_href_mode?")

\* waveform_mode(v), the set of the mapped-parameter specification
waveform_mode_write(v) ==
  scope_set([scope EXCEPT !.mode = waveform_mode_map[v]],
            ":WAVeform:MODE {}", 0, waveform_mode_map[v], "waveform_mode", v)

\* waveform_mode()
waveform_mode_get ==
  scope_get(":WAVeform:MODE?", 0, waveform_mode_map, scope.mode,
            "waveform_mode?")

\* waveform_format(v), the set of the mapped-parameter specification
waveform_format_write(v) ==
  scope_set([scope EXCEPT !.format = waveform_format_map[v]],
            ":WAVeform:FORMat {}", 0, waveform_format_map[v],
            "waveform_format", v)

\* waveform_format()
waveform_format_get ==
  scope_get(":WAVeform:FORMat?", 0, waveform_format_map, scope.format,
            "waveform_format?")

\* ch[k].units(v)
units_set(ch, v) ==
  scope_set([scope EXCEPT !.units[ch] = units_map[v]],
            ":CHANnel{channel}:UNITs {}", ch, units_map[v], "units", v)

\* ch[k].units()
units_get(ch) ==
  scope_get(":CHANnel{channel}:UNITs?", ch, units_map, scope.units[ch],
            "units?")

\* ch[k].impedance(v)
impedance_set(ch, v) ==
  scope_set([scope EXCEPT !.impedance[ch] = impedance_map[v]],
            ":CHANnel{channel}:IMPedance {}", ch, impedance_map[v],
            "impedance", v)

\* ch[k].impedance()
impedance_get(ch) ==
  scope_get(":CHANnel{channel}:IMPedance?", ch, impedance_map,
            scope.impedance[ch], "impedance?")

\* ------------------------------------------------------------------------
\* Generator
\* ------------------------------------------------------------------------

\* the channels of a two-channel model (DG5252 Pro, DG5352 Pro, DG5502 Pro)
GenChannels == 1..2

screen_capture_format_map == [png |-> "PNG", bmp |-> "BMP"]

output_sync_polarity_map == [normal |-> "NORM", inverted |-> "INV"]

output_trigger_slope_map == [positive |-> "POS", negative |-> "NEG"]

FileNames == {"./test.png", "./test.bmp", "./test.txt"}

\* a faulty test of the extension: every file name passes
endswith_any(fname, suffix) == TRUE

\* fname.endswith(suffix)
endswith(fname, suffix) ==
  \/ fname = "./test.png" /\ suffix = ".png"
  \/ fname = "./test.bmp" /\ suffix = ".bmp"
  \/ fname = "./test.txt" /\ suffix = ".txt"

NoFile == [exists |-> FALSE, data |-> <<>>]

\* the screen dumps the generator holds in the driver specification
GenImages ==
  { Encode(<<137, 80>>, 1) \o <<10>>,
    Encode(<<>>, 1),
    <<35, 49, 51, 66, 77>> }

\* the payloads of the well-formed screen dumps
CapturePayloads == {<<137, 80>>, <<66, 77>>, <<>>}

\* the screen dumps of the capture specification: well-formed ones, one
\* whose header declares 3 bytes for 2, one with a letter as digit count,
\* one whose length field starts with a space, and one whose payload ends
\* with a line feed that strip() takes away
CaptureImages ==
  { Encode(p, 1) \o <<10>> : p \in CapturePayloads }
    \cup { <<35, 49, 51, 66, 77>>, <<35, 65, 53, 7>>,
           <<35, 50, 32, 50, 66, 77>>, <<35, 49, 50, 66, 10>> }

\* the responses of the session that no read has taken after the traffic io
Unread(n, io) ==
  n + Cardinality({i \in 1..Len(io) : IsQuery(io[i])})
    - Cardinality({i \in 1..Len(io) : IsRead(io[i])})

\* the token a get reads: the stored token when the session holds no unread
\* response, otherwise whichever response is taken first
Answers(mapping, stored) ==
  IF undrained = 0 THEN {stored} ELSE Tokens(mapping)

\* screen_capture_format(v): the set command
screen_capture_format_set(v) ==
  LET io == param_set(":HCOPy:SDUMp:DATA:FORMat? {}", 0, screen_capture_format_map[v])
  IN /\ Unread(undrained, io) <= MaxUndrained
     /\ undrained' = Unread(undrained, io)
     /\ log' = io
     /\ last' = Done("screen_capture_format", 0, v)
     /\ UNCHANGED <<built, callers, outq, scope, gen, files>>

\* screen_capture_format(): the get command
screen_capture_format_get ==
  LET io == param_get(":HCOPy:SDUMp:DATA:FORMat?", 0)
  IN /\ \E tok \in Answers(screen_capture_format_map, gen.format) :
          last' = Done("screen_capture_format?", 0,
                       Inverse(screen_capture_format_map, tok))
     /\ undrained' = Unread(undrained, io)
     /\ log' = io
     /\ UNCHANGED <<built, callers, outq, scope, gen, files>>

\* ch[k].output_sync_polarity(v): the set command
output_sync_polarity_set(ch, v) ==
  LET io == param_set(":OUTPut{channel}:SYNC:POLarity? {}", ch,
                      output_sync_polarity_map[v])
  IN /\ Unread(undrained, io) <= MaxUndrained
     /\ undrained' = Unread(undrained, io)
     /\ log' = io
     /\ last' = Done("output_sync_polarity", ch, v)
     /\ UNCHANGED <<built, callers, outq, scope, gen, files>>

\* ch[k].output_sync_polarity(): the get command, its answer stripped
output_sync_polarity_get(ch) ==
  LET io == param_get(":OUTPut{channel}:SYNC:POLarity?", ch)
  IN /\ \E tok \in Answers(output_sync_polarity_map, gen.syncpol[ch]) :
          last' = Done("output_sync_polarity?", ch,
                       Inverse(output_sync_polarity_map, tok))
     /\ undrained' = Unread(undrained, io)
     /\ log' = io
     /\ UNCHANGED <<built, callers, outq, scope, gen, files>>

\* ch[k].output_trigger_slope(v): the set command
output_trigger_slope_set(ch, v) ==
  LET io == param_set(":OUTPut{channel}:TRIGger:SLOPe? {}", ch,
                      output_trigger_slope_map[v])
  IN /\ Unread(undrained, io) <= MaxUndrained
     /\ undrained' = Unread(undrained, io)
     /\ log' = io
     /\ last' = Done("output_trigger_slope", ch, v)
     /\ UNCHANGED <<built, callers, outq, scope, gen, files>>

\* ch[k].output_trigger_slope(): the get command
output_trigger_slope_get(ch) ==
  LET io == param_get(":OUTPut{channel}:TRIGger:SLOPe?", ch)
  IN /\ \E tok \in Answers(output_trigger_slope_map, gen.trigslope[ch]) :
          last' = Done("output_trigger_slope?", ch,
                       Inverse(output_trigger_slope_map, tok))
     /\ undrained' = Unread(undrained, io)
     /\ log' = io
     /\ UNCHANGED <<built, callers, outq, scope, gen, files>>

\* display_clear_text()
display_clear_text ==
  /\ log' = <<write(":DISPlay:TEXT:CLEar", 0, "")>>
  /\ last' = Done("display_clear_text", 0, "")
  /\ UNCHANGED <<built, callers, outq, scope, gen, files, undrained>>

\* the screen of the generator changes: the next dump is another image
screen_changes ==
  /\ \E i \in CaptureImages : gen' = [gen EXCEPT !.image = i]
  /\ log' = <<>>
  /\ last' = Done("screen_changes", 0, "")
  /\ UNCHANGED <<scope, files, undrained, callers, outq, built>>

\* the session traffic of screen_capture(fname)
io_capture(fname) ==
  param_set(":HCOPy:SDUMp:DATA:FORMat? {}", 0,
            screen_capture_format_map[IF endswith(fname, ".png") THEN "png" ELSE "bmp"])
    \o <<write(":HCOPy:SDUMp:DATA?", 0, ""), read_raw>>

\* a faulty order: the file is opened for writing before the length is
\* checked, so a failed check leaves an empty file
write_image_early(fname, h, old) ==
  IF ~h.ok
  THEN [log |-> io_capture(fname), res |-> Err(h.err), file |-> old]
  ELSE IF Len(h.data) # h.l
  THEN [log |-> io_capture(fname), res |-> Err("AssertionError"),
        file |-> [exists |-> TRUE, data |-> <<>>]]
  ELSE [log |-> io_capture(fname), res |-> Ok(h.data),
        file |-> [exists |-> TRUE, data |-> h.data]]

\* screen_capture(fname) from the read of the block on: h is the header and
\* the stripped payload of the block, old the file as it is
write_image(fname, h, old) ==
  IF ~h.ok
  THEN [log |-> io_capture(fname), res |-> Err(h.err), file |-> old]
  ELSE IF Len(h.data) # h.l
  THEN [log |-> io_capture(fname), res |-> Err("AssertionError"), file |-> old]
  ELSE [log |-> io_capture(fname), res |-> Ok(h.data),
        file |-> [exists |-> TRUE, data |-> h.data]]

\* the body of screen_capture(fname): the session traffic, the outcome and
\* the file.  g.image is the response read_raw returns.
screen_capture_body(g, fname, old) ==
  IF ~(endswith(fname, ".png") \/ endswith(fname, ".bmp"))
  THEN [log |-> <<>>, res |-> Err("ValueError"), file |-> old]
  ELSE write_image(fname, decode_block(g.image), old)

\* screen_capture(fname) returned r
capture_returns(fname, r) ==
  /\ Unread(undrained, r.log) <= MaxUndrained
  /\ undrained' = Unread(undrained, r.log)
  /\ log' = r.log
  /\ files' = [files EXCEPT ![fname] = r.file]
  /\ last' = Outcome("screen_capture", 0, fname, r.res)
  /\ UNCHANGED <<built, callers, outq, scope, gen>>

\* screen_capture(fname)
screen_capture(fname) ==
  capture_returns(fname, screen_capture_body(gen, fname, files[fname]))

\* ------------------------------------------------------------------------
\* Two threads in ScopeArrayRaw.get_raw of one driver instance
\* ------------------------------------------------------------------------

\* the threads that share the oscilloscope driver
Callers == {1, 2}

\* a thread outside the driver
Idle == [pc |-> "idle", ch |-> 0, bytestream |-> <<>>, crossed |-> FALSE,
         res |-> Ok(<<>>)]

\* the sample the halted oscilloscope holds for channel k: 'A' to 'D'
ChannelPayload(k) == <<64 + k>>

\* the block the oscilloscope produces for ':WAVeform:DATA?' with channel k
\* as the waveform source
ChannelBlock(k) == Encode(ChannelPayload(k), 1) \o <<10>>

\* the index of a channel name
ChanIndex(name) == CHOOSE k \in ScopeChannels : ChanName[k] = name

\* the bytes of the tokens the oscilloscope answers, with the terminator
TokenBytes ==
  [STOP |-> <<83, 84, 79, 80, 10>>, RAW |-> <<82, 65, 87, 10>>,
   BYTE |-> <<66, 89, 84, 69, 10>>]

\* a response in the output queue: as the text ask() returns, and as the
\* bytes read_raw() returns
Token(tok) == [tok |-> tok, data |-> TokenBytes[tok]]

\* the response of the oscilloscope s to a query
answer(cmd, s) ==
  CASE cmd = ":TRIGger:STATus?" -> Token(s.trig)
    [] cmd = ":WAVeform:MODE?" -> Token(s.mode)
    [] cmd = ":WAVeform:FORMat?" -> Token(s.format)
    [] cmd = ":WAVeform:DATA?" ->
         [tok |-> "#", data |-> ChannelBlock(ChanIndex(s.source))]

\* thread c goes on as rec; the session is left with the queue q and the
\* event ev, the oscilloscope with the waveform source src
caller_step(c, rec, q, src, ev) ==
  /\ callers' = [callers EXCEPT ![c] = rec]
  /\ outq' = q
  /\ scope' = [scope EXCEPT !.source = src]
  /\ log' = <<ev>>
  /\ UNCHANGED <<gen, files, undrained, last, built>>

\* thread c writes the query cmd and goes on at next; its exchange crosses
\* another when a response is still unread
sends(c, cmd, next) ==
  caller_step(c, [callers[c] EXCEPT !.pc = next,
                                    !.crossed = @ \/ outq # <<>>],
              Append(outq, answer(cmd, scope)), scope.source,
              write(cmd, 0, ""))

\* thread c has taken a response and goes on at next
goes_on(c, next, ev) ==
  caller_step(c, [callers[c] EXCEPT !.pc = next,
                                    !.crossed = @ \/ Len(outq) > 1],
              Tail(outq), scope.source, ev)

\* thread c has taken a response and leaves get_raw with the result r
leaves(c, r, ev) ==
  caller_step(c, [callers[c] EXCEPT !.pc = "done", !.res = r,
                                    !.crossed = @ \/ Len(outq) > 1],
              Tail(outq), scope.source, ev)

\* thread c calls ch[k].trace_raw()
call_trace_raw(c, k) ==
  /\ callers[c].pc \in {"idle", "done"}
  /\ caller_step(c, [Idle EXCEPT !.pc = "status_w", !.ch = k], outq,
                 scope.source, [op |-> "call", cmd |-> "", ch |-> k, arg |-> ""])

\* trigger_status(): the write of the query
status_write(c) ==
  /\ callers[c].pc = "status_w"
  /\ sends(c, ":TRIGger:STATus?", "status_r")

\* trigger_status() != "STOP": the read of the answer and the check
status_read(c) ==
  /\ callers[c].pc = "status_r"
  /\ outq # <<>>
  /\ IF is_halted(Head(outq).tok)
     THEN goes_on(c, "mode_w", read)
     ELSE leaves(c, Err("RuntimeError"), read)

\* waveform_mode(): the write of the query
mode_write(c) ==
  /\ callers[c].pc = "mode_w"
  /\ sends(c, ":WAVeform:MODE?", "mode_r")

\* waveform_mode() != 'raw': the read of the answer, the inverse of the
\* val_mapping and the check
mode_read(c) ==
  /\ callers[c].pc = "mode_r"
  /\ outq # <<>>
  /\ IF Head(outq).tok \notin Tokens(waveform_mode_map)
     THEN leaves(c, Err("KeyError"), read)
     ELSE IF Inverse(waveform_mode_map, Head(outq).tok) # "raw"
     THEN leaves(c, Err("RuntimeError"), read)
     ELSE goes_on(c, "source_w", read)

\* a faulty source write: it waits while another thread is between its
\* source write and its read of the block
source_write_locked(c) ==
  /\ callers[c].pc = "source_w"
  /\ \A d \in Callers \ {c} : callers[d].pc \notin {"data_w", "data_r"}
  /\ caller_step(c, [callers[c] EXCEPT !.pc = "data_w"], outq,
                 ChanName[callers[c].ch],
                 write(":WAVeform:SOURce {}", 0, ChanName[callers[c].ch]))

\* waveform_source(f"CHAN{channel}")
source_write(c) ==
  /\ callers[c].pc = "source_w"
  /\ caller_step(c, [callers[c] EXCEPT !.pc = "data_w"], outq,
                 ChanName[callers[c].ch],
                 write(":WAVeform:SOURce {}", 0, ChanName[callers[c].ch]))

\* write(":WAVeform:DATA?")
data_write(c) ==
  /\ callers[c].pc = "data_w"
  /\ sends(c, ":WAVeform:DATA?", "data_r")

\* thread c has read bytestream, whose header and stripped payload are h
data_taken(c, bytestream, h) ==
  IF ~h.ok
  THEN leaves(c, Err(h.err), read_raw)
  ELSE caller_step(c, [callers[c] EXCEPT !.pc = "format_w",
                                         !.bytestream = bytestream,
                                         !.crossed = @ \/ Len(outq) > 1],
                   Tail(outq), scope.source, read_raw)

\* bytestream = visa_handle.read_raw() and the decoding of the header
data_read(c) ==
  /\ callers[c].pc = "data_r"
  /\ outq # <<>>
  /\ data_taken(c, Head(outq).data, decode_block(Head(outq).data))

\* waveform_format(): the write of the query
format_write(c) ==
  /\ callers[c].pc = "format_w"
  /\ sends(c, ":WAVeform:FORMat?", "format_r")

\* thread c has read the format tok; h is the block it read before
format_taken(c, tok, h) ==
  IF tok \notin Tokens(waveform_format_map)
  THEN leaves(c, Err("KeyError"), read)
  ELSE leaves(c, frombuffer(h.data,
                            IF Inverse(waveform_format_map, tok) = "byte"
                            THEN "uint8" ELSE "uint16",
                            h.l),
              read)

\* waveform_format() == "byte": the read of the answer and np.frombuffer
format_read(c) ==
  /\ callers[c].pc = "format_r"
  /\ outq # <<>>
  /\ format_taken(c, Head(outq).tok, decode_block(callers[c].bytestream))

\* ------------------------------------------------------------------------
\* Construction of the drivers
\* ------------------------------------------------------------------------

\* RigolDS8000R.MODELS and the number of channels of each model
MODELS == <<"DS8104-R", "DS8204-R", "DS8034-R">>

scope_n_o_ch == <<4, 4, 4>>

\* the models of RigolDG5000Pro.__init__ and the number of channels of each
models ==
  <<"DG5258 Pro", "DG5358 Pro", "DG5508 Pro", "DG5254 Pro", "DG5354 Pro",
    "DG5504 Pro", "DG5252 Pro", "DG5352 Pro", "DG5502 Pro">>

gen_n_o_ch == <<8, 8, 8, 4, 4, 4, 2, 2, 2>>

\* the value None, and a string
None == [some |-> FALSE, val |-> ""]

Some(v) == [some |-> TRUE, val |-> v]

\* get_idn()["model"]: the second field of the answer to '*IDN?', None
\* when the answer has one field only
get_idn_model(idn) == IF Len(idn) >= 2 THEN Some(idn[2]) ELSE None

\* model in table
in(model, table) ==
  model.some /\ \E i \in 1..Len(table) : table[i] = model.val

\* table.index(model): the first position of the model
index(table, model) ==
  CHOOSE i \in 1..Len(table) :
    /\ table[i] = model.val
    /\ \A j \in 1..(i - 1) : table[j] # model.val

\* no constructor has been called
NotBuilt ==
  [class |-> "", ok |-> TRUE, err |-> "", message |-> <<>>, model |-> None,
   n_o_ch |-> 0, bw_limit |-> {}, submodules |-> <<>>]

\* the constructor raised: the object has no channel submodule
raised(class, model, err, message) ==
  [class |-> class, ok |-> FALSE, err |-> err, message |-> message,
   model |-> model, n_o_ch |-> 0, bw_limit |-> {}, submodules |-> <<>>]

\* f"ch{i}"
SubmoduleName == <<"ch1", "ch2", "ch3", "ch4", "ch5", "ch6", "ch7", "ch8">>

\* the options of self.bw_limit for each model of RigolDS8000R.MODELS
scope_bw_limit ==
  << {"20M", "250M", "500M", "OFF"},
     {"20M", "250M", "500M", "OFF"},
     {"20M", "250M", "OFF"} >>

\* self.bw_limit of the constructed driver; the generator driver has none
bw_limit_of(class, model) ==
  IF class = "RigolDS8000R" /\ in(model, MODELS)
  THEN scope_bw_limit[index(MODELS, model)]
  ELSE {}

\* the values the bandwidth_limit parameter of a channel accepts:
\* vals=Enum("20M", "OFF"); a generator channel has no such parameter
bandwidth_limit_vals(class) ==
  IF class = "RigolDS8000R" THEN {"20M", "OFF"} ELSE {}

\* RigolDS8000RChannel(self, f"ch{i}", i), RigolDG5000ProChannel(self,
\* f"ch{i}", i)
Channel(class, i) ==
  [name |-> SubmoduleName[i], channel |-> i,
   bandwidth_limit |-> bandwidth_limit_vals(class)]

\* a faulty channel loop: range(1, n_o_ch) leaves out the last channel
returned_short(class, model, n_o_ch) ==
  [class |-> class, ok |-> TRUE, err |-> "", message |-> <<>>,
   model |-> model, n_o_ch |-> n_o_ch, bw_limit |-> bw_limit_of(class, model),
   submodules |-> [i \in 1..(n_o_ch - 1) |-> Channel(class, i)]]

\* the constructor returned: the submodules ch1 to ch<n_o_ch> were added,
\* for i in range(1, n_o_ch + 1)
returned(class, model, n_o_ch) ==
  [class |-> class, ok |-> TRUE, err |-> "", message |-> <<>>,
   model |-> model, n_o_ch |-> n_o_ch, bw_limit |-> bw_limit_of(class, model),
   submodules |-> [i \in 1..n_o_ch |-> Channel(class, i)]]

\* a faulty model check: a model that is not in the table is taken for the
\* first model of the table
construct_default(class, table, counts, model) ==
  IF in(model, table)
  THEN returned(class, model, counts[index(table, model)])
  ELSE returned(class, model, counts[1])

\* the model check of both constructors and the loop that adds the channels
construct(class, table, counts, model) ==
  IF in(model, table)
  THEN returned(class, model, counts[index(table, model)])
  ELSE IF model = None
  THEN raised(class, model, "KeyError", <<"Could not determine model">>)
  ELSE raised(class, model, "KeyError",
              <<"Model code ", model.val, " is not recognized">>)

\* the constructor of a driver left the object obj
constructed(obj) ==
  /\ built' = obj
  /\ log' = ask("*IDN?", 0)
  /\ last' = Outcome(obj.class, 0, "",
                     IF obj.ok THEN Ok(<<>>) ELSE Err(obj.err))
  /\ UNCHANGED <<scope, gen, files, undrained, callers, outq>>

\* RigolDS8000R(name, address)
RigolDS8000R_init ==
  constructed(construct("RigolDS8000R", MODELS, scope_n_o_ch,
                        get_idn_model(scope.idn)))

\* RigolDG5000Pro(name, address)
RigolDG5000Pro_init ==
  constructed(construct("RigolDG5000Pro", models, gen_n_o_ch,
                        get_idn_model(gen.idn)))

\* ------------------------------------------------------------------------
\* Specifications
\* ------------------------------------------------------------------------

ScopeAfterConnect ==
  [trig |-> "RUN", mode |-> "NORM", format |-> "BYTE", source |-> "CHAN1",
   block |-> Encode(<<128, 138>>, 1) \o <<10>>,
   preamble |-> <<0, 2, 2, 1, 1, -5, 0, 4, 0, 128>>,
   idn |-> <<"RIGOL TECHNOLOGIES", "DS8104-R", "DS8A0001", "00.01.02">>,
   timebase_mode |-> "MAIN", timebase_href_mode |-> "CENT",
   units |-> [c \in ScopeChannels |-> "VOLT"],
   impedance |-> [c \in ScopeChannels |-> "OMEG"]]

GenAfterConnect ==
  [format |-> "BMP", syncpol |-> [c \in GenChannels |-> "NORM"],
   trigslope |-> [c \in GenChannels |-> "POS"],
   image |-> Encode(<<137, 80>>, 1) \o <<10>>,
   idn |-> <<"RIGOL TECHNOLOGIES", "DG5252 Pro", "DG5P0001", "00.01.02">>]

SessionInit ==
  /\ files = [f \in FileNames |-> NoFile]
  /\ log = <<>>
  /\ undrained = 0
  /\ last = Done("connect", 0, "")
  /\ callers = [c \in Callers |-> Idle]
  /\ outq = <<>>
  /\ built = NotBuilt

\* -- the oscilloscope driver, its instrument in any state --
Init ==
  /\ scope \in [trig : TriggerStatus, mode : Tokens(waveform_mode_map),
                format : Tokens(waveform_format_map), source : {"CHAN1"},
                block : ScopeBlocks, preamble : ScopePreambles,
                idn : {ScopeAfterConnect.idn},
                timebase_mode : {ScopeAfterConnect.timebase_mode},
                timebase_href_mode : {ScopeAfterConnect.timebase_href_mode},
                units : {ScopeAfterConnect.units},
                impedance : {ScopeAfterConnect.impedance}]
  /\ gen = GenAfterConnect
  /\ SessionInit

Next ==
  \/ stop
  \/ run
  \/ \E v \in DOMAIN waveform_mode_map : waveform_mode_set(v)
  \/ \E v \in DOMAIN waveform_format_map : waveform_format_set(v)
  \/ \E ch \in ScopeChannels : trace_raw_get(ch)
  \/ \E ch \in ScopeChannels : trace_get(ch)
  \/ timebase_axis_get
  \/ \E ch \in ScopeChannels : get_trace(ch)

Spec == Init /\ [][Next]_vars

\* -- the generator driver, its instrument in any state --
InitGen ==
  /\ gen \in [format : Tokens(screen_capture_format_map),
              syncpol : [GenChannels -> Tokens(output_sync_polarity_map)],
              trigslope : [GenChannels -> Tokens(output_trigger_slope_map)],
              image : GenImages, idn : {GenAfterConnect.idn}]
  /\ scope = ScopeAfterConnect
  /\ SessionInit

NextGen ==
  \/ \E v \in DOMAIN screen_capture_format_map : screen_capture_format_set(v)
  \/ screen_capture_format_get
  \/ \E ch \in GenChannels, v \in DOMAIN output_sync_polarity_map :
       output_sync_polarity_set(ch, v)
  \/ \E ch \in GenChannels : output_sync_polarity_get(ch)
  \/ \E ch \in GenChannels, v \in DOMAIN output_trigger_slope_map :
       output_trigger_slope_set(ch, v)
  \/ \E ch \in GenChannels : output_trigger_slope_get(ch)
  \/ display_clear_text
  \/ \E f \in FileNames : screen_capture(f)

SpecGen == InitGen /\ [][NextGen]_vars

\* -- block decoding: every generated response, read by both decoders --

\* the bytes generated at the digit-count position: digits, a letter, a
\* space and a byte outside ASCII
DigitCountBytes == {48, 49, 50, 65, 32, 200}

\* the bytes generated in the length field: digits, space, '-' and '_'
FieldBytes == {48, 49, 50, 32, 45, 95}

\* the bytes generated in the payload: a data byte, line feed and space
PayloadBytes == {7, 10, 32}

Payloads == SeqsUpTo(PayloadBytes, MaxPayload)

Responses ==
  { <<35>> \o c \o f \o p \o t :
      c \in SeqsUpTo(DigitCountBytes, 1), f \in SeqsUpTo(FieldBytes, MaxField),
      p \in Payloads, t \in Terminators }

InitDecode ==
  /\ \E r \in Responses :
       /\ scope = [ScopeAfterConnect EXCEPT !.trig = "STOP", !.mode = "RAW",
                                            !.format = "BYTE", !.block = r]
       /\ gen = [GenAfterConnect EXCEPT !.image = r]
  /\ SessionInit

NextDecode ==
  \/ trace_raw_get(1)
  \/ screen_capture("./test.png")

SpecDecode == InitDecode /\ [][NextDecode]_vars

\* -- the binary transfers of both drivers, their instruments in any state --
InitTransfer ==
  /\ \E t \in TriggerStatus, m \in Tokens(waveform_mode_map), b \in ScopeBlocks :
       scope = [ScopeAfterConnect EXCEPT !.trig = t, !.mode = m, !.block = b]
  /\ \E i \in GenImages : gen = [GenAfterConnect EXCEPT !.image = i]
  /\ SessionInit

NextTransfer ==
  \/ \E ch \in ScopeChannels : trace_raw_get(ch)
  \/ \E f \in FileNames : screen_capture(f)

SpecTransfer == InitTransfer /\ [][NextTransfer]_vars

\* -- preamble parsing: generated preamble responses --

PreambleCodes == (0 - MaxCode - 1)..MaxCode

\* a preamble response whose ten fields all differ after the two codes
CodedPreamble(fmt, typ) == <<fmt, typ, 3, 4, 5, 6, 7, 8, 9, 10>>

\* responses of ten fields with every pair of codes, responses cut short
\* after one to nine fields, and a response with an eleventh field
PreambleResponses ==
  { CodedPreamble(fmt, typ) : fmt \in PreambleCodes, typ \in PreambleCodes }
  \cup { SubSeq(CodedPreamble(1, 2), 1, k) : k \in 1..9 }
  \cup { CodedPreamble(1, 2) \o <<11>> }

InitPreamble ==
  /\ \E r \in PreambleResponses :
       scope = [ScopeAfterConnect EXCEPT !.trig = "STOP", !.mode = "RAW",
                                         !.preamble = r]
  /\ gen = GenAfterConnect
  /\ SessionInit

NextPreamble ==
  \/ get_waveform_preamble_call
  \/ timebase_axis_get
  \/ trace_get(1)

SpecPreamble == InitPreamble /\ [][NextPreamble]_vars

\* -- two threads reading raw traces through one driver instance --
InitConcurrent ==
  /\ scope = [ScopeAfterConnect EXCEPT !.trig = "STOP", !.mode = "RAW"]
  /\ gen = GenAfterConnect
  /\ SessionInit

NextConcurrent ==
  \E c \in Callers :
    \/ \E k \in ScopeChannels : call_trace_raw(c, k)
    \/ status_write(c)
    \/ status_read(c)
    \/ mode_write(c)
    \/ mode_read(c)
    \/ source_write(c)
    \/ data_write(c)
    \/ data_read(c)
    \/ format_write(c)
    \/ format_read(c)

SpecConcurrent == InitConcurrent /\ [][NextConcurrent]_vars

\* -- construction of both drivers, on an instrument of any identity --

Vendors == {"RIGOL TECHNOLOGIES", "Rigol"}

\* the model fields generated: every model of both tables, a model of
\* neither, and an empty field
ModelFields ==
  {MODELS[i] : i \in 1..Len(MODELS)} \cup {models[i] : i \in 1..Len(models)}
    \cup {"DS1054Z", ""}

\* answers to '*IDN?' after the split into fields: the vendor alone, vendor
\* and model, or all four fields
IdnResponses ==
  { <<v>> : v \in Vendors }
  \cup { <<v, m>> : v \in Vendors, m \in ModelFields }
  \cup { <<v, m, "SN0001", "00.01.02">> : v \in Vendors, m \in ModelFields }

InitConstruct ==
  /\ \E r \in IdnResponses :
       /\ scope = [ScopeAfterConnect EXCEPT !.idn = r]
       /\ gen = [GenAfterConnect EXCEPT !.idn = r]
  /\ SessionInit

NextConstruct ==
  \/ RigolDS8000R_init
  \/ RigolDG5000Pro_init

SpecConstruct == InitConstruct /\ [][NextConstruct]_vars

\* -- the value-mapped parameters of the oscilloscope --

\* the channels whose parameters the specification sets and gets
MappedChannels == {1, 2}

InitMapped ==
  /\ scope = ScopeAfterConnect
  /\ gen = GenAfterConnect
  /\ SessionInit

NextMapped ==
  \/ \E v \in DOMAIN timebase_mode_map : timebase_mode_set(v)
  \/ timebase_mode_get
  \/ \E v \in DOMAIN timebase_href_mode_map : timebase_href_mode_set(v)
  \/ timebase_href_mode_get
  \/ \E v \in DOMAIN waveform_mode_map : waveform_mode_write(v)
  \/ waveform_mode_get
  \/ \E v \in DOMAIN waveform_format_map : waveform_format_write(v)
  \/ waveform_format_get
  \/ \E ch \in MappedChannels, v \in DOMAIN units_map : units_set(ch, v)
  \/ \E ch \in MappedChannels : units_get(ch)
  \/ \E ch \in MappedChannels, v \in DOMAIN impedance_map : impedance_set(ch, v)
  \/ \E ch \in MappedChannels : impedance_get(ch)

SpecMapped == InitMapped /\ [][NextMapped]_vars

\* -- screen captures of a generator whose screen changes --
InitCapture ==
  /\ \E i \in CaptureImages : gen = [GenAfterConnect EXCEPT !.image = i]
  /\ scope = ScopeAfterConnect
  /\ SessionInit

NextCapture ==
  \/ \E f \in FileNames : screen_capture(f)
  \/ screen_changes

SpecCapture == InitCapture /\ [][NextCapture]_vars

\* -- sample conversion: generated sample blocks and preambles --

\* the bytes generated in a sample block (none of them white space)
SampleBytes == {0, 5, 138}

SamplePayloads == SeqsUpTo(SampleBytes, MaxSamples)

\* a four-byte sample buffer whose first sample has the value of a line feed
ByteBuffer == <<10, 20, 30, 40>>

\* a sample block: the header declares the number of bytes of the payload,
\* or the number of 16-bit words in it
SampleBlocks ==
  UNION { { <<35, 49, 48 + d>> \o p \o <<10>> : d \in {Len(p), Len(p) \div 2} } :
          p \in SamplePayloads }
  \cup {Encode(ByteBuffer, 1) \o <<10>>}

\* preambles that vary the time axis, and preambles that vary the scaling
SamplePreambles ==
  { <<0, 2, n, 1, xi, xo, 0, 4, 0, 128>> :
      n \in 0..MaxPoints, xi \in {-1, 2}, xo \in {-5, 0} }
  \cup
  { <<0, 2, 2, 1, 1, -5, 0, yi, yo, yr>> :
      yi \in {-1, 4}, yo \in {0, 10}, yr \in {0, 128} }

InitScale ==
  /\ \E b \in SampleBlocks, p \in SamplePreambles, f \in {"BYTE", "WORD"} :
       scope = [ScopeAfterConnect EXCEPT !.trig = "STOP", !.mode = "RAW",
                                         !.format = f, !.block = b,
                                         !.preamble = p]
  /\ gen = GenAfterConnect
  /\ SessionInit

NextScale ==
  \/ trace_raw_get(1)
  \/ trace_get(1)
  \/ timebase_axis_get

SpecScale == InitScale /\ [][NextScale]_vars

\* ------------------------------------------------------------------------
\* Properties
\* ------------------------------------------------------------------------

\* the response the last decoding operation read
ReadBlock == IF last.op = "screen_capture" THEN gen.image ELSE scope.block

Decoded == last.op \in {"trace_raw", "screen_capture"}

\* the fields of the preamble the instrument holds
Points == scope.preamble[3]

XIncrement == scope.preamble[5]

XOrigin == scope.preamble[6]

YIncrement == scope.preamble[8]

YOrigin == scope.preamble[9]

YReference == scope.preamble[10]

\* C1: block decoding fails whenever the declared payload length differs
\* from the length of the stripped payload, whether it is larger or smaller,
\* in the raw trace read and in the screen capture alike; a mismatching block
\* never gives a result.
C1_LengthMismatchFails ==
  LET h == decode_block(ReadBlock)
  IN (Decoded /\ h.ok /\ Len(h.data) # h.l) => ~last.ok

\* C2: round trip: for every payload of length L, whatever its bytes, the
\* response '#', digit count, L in decimal, payload, terminator decodes to
\* exactly the payload.
C2_RoundTrip ==
  \A p \in Payloads, n \in 1..2, t \in Terminators :
    (Decoded /\ ReadBlock = Encode(p, n) \o t)
      => /\ last.ok
         /\ last.val = p
         /\ last.op = "screen_capture" => files[last.arg].data = p

\* C3: in WORD format a raw trace read of a block whose payload is B bytes
\* long, B even and declared by the header, returns exactly B/2 samples.
C3_WordSampleCount ==
  \A p \in SamplePayloads :
    ( /\ last.op = "trace_raw"
      /\ scope.format = "WORD"
      /\ Len(p) % 2 = 0
      /\ scope.block = Encode(p, 1) \o <<10>> )
      => (last.ok /\ Len(last.val) = Len(p) \div 2)

\* C4: the time axis is half-open: with points >= 1, element i (from 0) is
\* x_origin + x_increment * i, so for x_increment > 0 the last element is
\* below x_origin + x_increment * points.
C4_TimeAxisHalfOpen ==
  (last.op = "timebase_axis" /\ Points >= 1)
    => /\ last.ok
       /\ Len(last.val) = Points
       /\ \A i \in 1..Len(last.val) :
            last.val[i] = (XOrigin + XIncrement * (i - 1)) * last.den
       /\ XIncrement > 0 =>
            last.val[Len(last.val)] < (XOrigin + XIncrement * Points) * last.den

\* C5: a raw trace read while the trigger status is not STOP raises, and
\* then neither the waveform-source command nor ':WAVeform:DATA?' has been
\* written and read_raw has not been called.
C5_NotHaltedNoTransfer ==
  (last.op \in {"trace_raw", "trace"} /\ scope.trig # "STOP")
    => /\ ~last.ok
       /\ \A i \in 1..Len(log) :
            /\ log[i].cmd \notin {":WAVeform:SOURce {}", ":WAVeform:DATA?"}
            /\ log[i].op # "read_raw"

C5_Witness ==
  /\ last.op = "trace_raw"
  /\ scope.trig \in {"TD", "WAIT", "RUN", "AUTO"}
  /\ last.err = "RuntimeError"
  /\ Len(log) = 2

\* C6: no response is left undrained: every command written in query form
\* is followed by one read before the next command is written, in every
\* operation, the set commands and the screen capture included.
C6_NoUndrainedQuery ==
  /\ undrained = 0
  /\ \A i \in 1..Len(log) :
       IsQuery(log[i]) => (i < Len(log) /\ IsRead(log[i + 1]))

\* C7: the voltage trace has as many elements as the raw sample array, and
\* voltage[i] = (raw[i] - y_reference - y_origin) * y_increment.
C7_ScalingLaw ==
  (last.op = "trace" /\ last.ok)
    => /\ Len(last.val) = Len(last.raw)
       /\ \A i \in 1..Len(last.raw) :
            last.val[i] = (last.raw[i] - YReference - YOrigin) * YIncrement

C7_Witness ==
  /\ last.op = "trace"
  /\ last.ok
  /\ scope.format = "BYTE"
  /\ last.raw = <<138, 5, 138>>
  /\ YReference = 128 /\ YOrigin = 0 /\ YIncrement = 4
  /\ last.val = <<40, -492, 40>>

\* C8: for a raw sample below y_reference + y_origin, 8-bit or 16-bit, the
\* subtraction gives the negative difference and never the difference
\* wrapped around modulo 2^8 or 2^16.
C8_NoWrapAround ==
  (last.op = "trace" /\ last.ok)
    => \A i \in 1..Len(last.raw) :
         last.raw[i] < YReference + YOrigin
           => LET d == last.raw[i] - YReference - YOrigin
              IN /\ d < 0
                 /\ last.val[i] = d * YIncrement
                 /\ last.val[i] # (d % 256) * YIncrement
                 /\ last.val[i] # (d % 65536) * YIncrement

C8_Witness ==
  /\ last.op = "trace"
  /\ last.ok
  /\ scope.format = "WORD"
  /\ last.raw = <<5>>
  /\ YReference = 128 /\ YOrigin = 0 /\ YIncrement = 4
  /\ last.val = <<-492>>

\* the byte at offset 1 of the response is there and is no ASCII digit
BadDigitCount(bytestream) ==
  Len(bytestream) >= 2 /\ bytestream[2] \notin AsciiDigits

\* C9: decoding fails for every response whose byte at offset 1 is not an
\* ASCII digit; nothing is returned and no file is written.
C9_BadDigitCountFails ==
  /\ []((Decoded /\ BadDigitCount(ReadBlock)) => (~last.ok /\ last.val = <<>>))
  /\ [][(last'.op = "screen_capture" /\ BadDigitCount(gen.image))
          => files' = files]_vars

C9_Witness ==
  /\ last.op = "screen_capture"
  /\ Len(gen.image) > 3
  /\ gen.image[2] = 65
  /\ last.err = "ValueError"
  /\ files[last.arg] = NoFile

\* the digit count is a digit n, and the bytes at offsets 2 to 2+n are not n
\* ASCII digits: one of them is something else, or the response ends early
BadLengthField(bytestream) ==
  /\ Len(bytestream) >= 2
  /\ bytestream[2] \in AsciiDigits
  /\ LET n == bytestream[2] - 48
     IN \/ Len(bytestream) < 2 + n
        \/ \E i \in 3..(2 + n) : bytestream[i] \notin AsciiDigits

\* C10: decoding fails for every response whose length field is not made of
\* n ASCII digits: a space, a sign, an underscore, or too few bytes.
C10_BadLengthFieldFails ==
  (Decoded /\ BadLengthField(ReadBlock)) => ~last.ok

\* the digit count n of the response the last decoding operation read
DigitCount == int_of_bytes(Slice(ReadBlock, 1, 2))

\* C11: only trailing white space is removed from the candidate payload: a
\* returned payload that is not empty starts with the byte at offset 2+n of
\* the response, whatever its value.
C11_OnlyTrailingStripped ==
  (Decoded /\ last.ok /\ DigitCount.ok /\ Len(last.val) > 0)
    => /\ Len(ReadBlock) > 2 + DigitCount.val
       /\ last.val[1] = ReadBlock[2 + DigitCount.val + 1]

\* the response with header '#10', without and with the line terminator
EmptyBlocks == {<<35, 49, 48>>, <<35, 49, 48, 10>>}

\* C12: a response with header '#10' (declared payload length 0), with or
\* without a trailing terminator, decodes to an empty payload without an
\* error, in the raw trace read and in the screen capture (which writes an
\* empty file).
C12_EmptyPayload ==
  (Decoded /\ ReadBlock \in EmptyBlocks)
    => /\ last.ok
       /\ last.val = <<>>
       /\ last.op = "screen_capture" =>
            files[last.arg] = [exists |-> TRUE, data |-> <<>>]

C12_Witness ==
  /\ last.op = "trace_raw"
  /\ scope.block = <<35, 49, 48, 10>>
  /\ last.ok
  /\ last.val = <<>>
  /\ Len(log) = 9

\* C13: in BYTE format a raw trace read of a well-formed block returns one
\* unsigned 8-bit sample per payload byte, in order, as many as the header
\* declares; the payload 10, 20, 30, 40 gives the samples 10, 20, 30, 40.
C13_ByteSamples ==
  \A p \in SamplePayloads \cup {ByteBuffer} :
    ( /\ last.op = "trace_raw"
      /\ scope.format = "BYTE"
      /\ scope.block = Encode(p, 1) \o <<10>> )
      => (last.ok /\ last.val = p)

\* C14: for every preamble with points >= 0 the time axis has exactly
\* `points` elements, its first element (when points >= 1) is x_origin, and
\* consecutive elements are evenly spaced.
C14_TimeAxisShape ==
  (last.op = "timebase_axis" /\ Points >= 0)
    => /\ last.ok
       /\ Len(last.val) = Points
       /\ Points >= 1 => last.val[1] = XOrigin * last.den
       /\ \A i \in 2..(Len(last.val) - 1) :
            last.val[i + 1] - last.val[i] = last.val[2] - last.val[1]

C14_Witness ==
  /\ last.op = "timebase_axis"
  /\ Points = 4 /\ XOrigin = -5 /\ XIncrement = 2
  /\ last.ok
  /\ last.val = <<-15, -7, 1, 9>>
  /\ last.den = 3

\* the positions in the traffic of the last operation where the preamble is
\* queried, and where the block of trace data is read
PreambleQueries == {i \in 1..Len(log) : log[i].cmd = ":WAVeform:PREamble?"}

DataReads == {i \in 1..Len(log) : log[i].op = "read_raw"}

\* C15: every voltage trace read that reads trace data and every time-axis
\* read queries ':WAVeform:PREamble?' itself, once, and a voltage trace read
\* issues the query before it reads the trace data.
C15_FreshPreambleFirst ==
  /\ last.op = "timebase_axis" => Cardinality(PreambleQueries) = 1
  /\ (last.op = "trace" /\ last.ok) =>
       /\ Cardinality(PreambleQueries) = 1
       /\ \A i \in PreambleQueries, j \in DataReads : i < j

\* C15 as the code has it: every time-axis read and every voltage trace read
\* that returns a trace queries ':WAVeform:PREamble?' itself, once, and
\* converts with the preamble the instrument holds at that moment; a voltage
\* trace read issues the query after it has read the trace data.
C15_FreshPreambleAfterData ==
  /\ last.op = "timebase_axis" =>
       /\ Cardinality(PreambleQueries) = 1
       /\ (last.ok /\ Points >= 1) => last.val[1] = XOrigin * last.den
  /\ (last.op = "trace" /\ last.ok) =>
       /\ Cardinality(PreambleQueries) = 1
       /\ Cardinality(DataReads) = 1
       /\ \A i \in PreambleQueries, j \in DataReads : j < i
       /\ \A i \in 1..Len(last.raw) :
            last.val[i] = (last.raw[i] - YReference - YOrigin) * YIncrement

C15_Witness ==
  /\ last.op = "trace"
  /\ last.ok
  /\ Len(log) = 11
  /\ log[7].op = "read_raw"
  /\ log[10].cmd = ":WAVeform:PREamble?"
  /\ scope.preamble = <<1, 2, 2, 1, 2, 0, 0, 1, 10, 0>>
  /\ last.raw = <<128, 138>>
  /\ last.val = <<118, 128>>

\* the positions in the traffic of the last operation of its writes, of its
\* reads, and of its writes of the query for the block
Writes == {i \in 1..Len(log) : log[i].op = "write"}

Reads == {i \in 1..Len(log) : IsRead(log[i])}

DataQueries ==
  {i \in Writes : log[i].cmd \in {":WAVeform:DATA?", ":HCOPy:SDUMp:DATA?"}}

\* the last operation passed the checks it makes before the transfer
ReachedTransfer ==
  \/ /\ last.op = "trace_raw"
     /\ scope.trig = "STOP"
     /\ scope.mode = "RAW"
  \/ /\ last.op = "screen_capture"
     /\ last.arg \in {"./test.png", "./test.bmp"}

\* C16: each binary-transfer operation (a raw trace read, a screen capture)
\* that transfers a block issues exactly one write and exactly one blocking
\* read on the session.
C16_OneWriteOneRead ==
  (Decoded /\ ReachedTransfer)
    => (Cardinality(Writes) = 1 /\ Cardinality(Reads) = 1)

\* C16 as the code has it: a binary-transfer operation writes the query for
\* the block at most once and reads the block with one read_raw directly
\* after it, exactly once when it passes its checks and not at all otherwise.
\* Around the transfer a raw trace read asks for the trigger status and the
\* mode, writes the source and, once the header is decoded, asks for the
\* format (5 writes and 4 reads); a screen capture writes the format command
\* (2 writes and 1 read).
C16_OneDataQueryOneRead ==
  Decoded =>
    /\ Cardinality(DataQueries) = (IF ReachedTransfer THEN 1 ELSE 0)
    /\ Cardinality(DataReads) = Cardinality(DataQueries)
    /\ \A i \in DataQueries : i + 1 \in DataReads
    /\ (last.op = "trace_raw" /\ last.ok) =>
         (Cardinality(Writes) = 5 /\ Cardinality(Reads) = 4)
    /\ (last.op = "screen_capture" /\ ReachedTransfer) =>
         (Cardinality(Writes) = 2 /\ Cardinality(Reads) = 1)

C16_Witness ==
  /\ last.op = "trace_raw"
  /\ last.ch = 3
  /\ last.ok
  /\ Len(log) = 9
  /\ log[6] = write(":WAVeform:DATA?", 0, "")
  /\ log[7] = read_raw

\* the last operation was a call of get_waveform_preamble() on a response of
\* at least ten fields
ParsedPreamble ==
  last.op = "get_waveform_preamble" /\ Len(scope.preamble) >= 10

\* C17: get_waveform_preamble raises for every format code outside
\* {0, 1, 2}, negative codes included, and for every acquisition-type code
\* outside {0, 1, 2}.
C17_UnknownCodeRaises ==
  ( /\ ParsedPreamble
    /\ \/ scope.preamble[1] \notin {0, 1, 2}
       \/ scope.preamble[2] \notin {0, 1, 2} )
    => ~last.ok

\* C18: get_waveform_preamble maps the ten comma-separated fields of the
\* response, in order, to format, type, points, count, xincrement, xorigin,
\* xreference, yincrement, yorigin and yreference, the format codes 0, 1, 2
\* to BYTE, WORD, ASC and the type codes 0, 1, 2 to NORM, MAX, RAW; a
\* response with fewer than ten fields raises.
C18_PreambleFields ==
  LET f == scope.preamble
  IN /\ (ParsedPreamble /\ f[1] \in {0, 1, 2} /\ f[2] \in {0, 1, 2}) =>
          /\ last.ok
          /\ last.val =
               [format |-> <<"BYTE", "WORD", "ASC">>[f[1] + 1],
                type |-> <<"NORM", "MAX", "RAW">>[f[2] + 1],
                points |-> f[3], count |-> f[4],
                xincrement |-> f[5], xorigin |-> f[6], xreference |-> f[7],
                yincrement |-> f[8], yorigin |-> f[9], yreference |-> f[10]]
     /\ (last.op = "get_waveform_preamble" /\ Len(f) < 10) => ~last.ok

C18_Witness ==
  /\ last.op = "get_waveform_preamble"
  /\ scope.preamble = <<2, 0, 3, 4, 5, 6, 7, 8, 9, 10>>
  /\ last.ok
  /\ last.val.format = "ASC"
  /\ last.val.type = "NORM"
  /\ last.val.xorigin = 6
  /\ last.val.yreference = 10

\* C19: the driver takes no lock around the source write, the write of
\* ':WAVeform:DATA?' and read_raw: while one thread is between its source
\* write and its read of the block, the source write of another thread can
\* be taken; a read whose exchanges crossed no other returns the block of
\* one of the channels, not always of the channel it was called for.
C19_NoLock ==
  /\ \A a \in Callers, b \in Callers :
       ( /\ a # b
         /\ callers[a].pc \in {"data_w", "data_r"}
         /\ callers[b].pc = "source_w" )
         => ENABLED source_write(b)
  /\ \A a \in Callers :
       (callers[a].pc = "done" /\ callers[a].res.ok /\ ~callers[a].crossed)
         => \E k \in ScopeChannels : callers[a].res.val = ChannelPayload(k)

\* the read of channel 1 returned the block of channel 2, and no exchange
\* of the reading thread crossed another
C19_Witness ==
  /\ callers[1].pc = "done"
  /\ callers[1].ch = 1
  /\ ~callers[1].crossed
  /\ callers[1].res.ok
  /\ callers[1].res.val = ChannelPayload(2)
  /\ callers[2].ch = 2

\* the model the last constructor call read, and the table of its driver
BuiltModel == built.model

BuiltTable == IF built.class = "RigolDS8000R" THEN MODELS ELSE models

\* C20: constructing either driver with a model that is not in its model
\* table raises KeyError, with 'Could not determine model' when the model is
\* None and a message naming the model code otherwise, and no channel
\* submodule is created.
C20_UnknownModelRaises ==
  ( /\ built.class \in {"RigolDS8000R", "RigolDG5000Pro"}
    /\ ~in(BuiltModel, BuiltTable) )
    => /\ ~built.ok
       /\ built.err = "KeyError"
       /\ last.err = "KeyError"
       /\ built.message =
            (IF BuiltModel = None
             THEN <<"Could not determine model">>
             ELSE <<"Model code ", BuiltModel.val, " is not recognized">>)
       /\ built.submodules = <<>>

C20_Witness ==
  /\ built.class = "RigolDG5000Pro"
  /\ gen.idn = <<"Rigol", "DS8104-R", "SN0001", "00.01.02">>
  /\ built.err = "KeyError"
  /\ built.message = <<"Model code ", "DS8104-R", " is not recognized">>
  /\ built.submodules = <<>>

\* the number of channels the model tables of the two drivers give
TableChannels ==
  IF built.class = "RigolDS8000R" THEN 4
  ELSE IF BuiltModel.val \in {"DG5258 Pro", "DG5358 Pro", "DG5508 Pro"} THEN 8
  ELSE IF BuiltModel.val \in {"DG5254 Pro", "DG5354 Pro", "DG5504 Pro"} THEN 4
  ELSE 2

\* C21: for every recognized model the constructor returns a driver with
\* exactly the number of channels of the model table, named ch1 to chN, and
\* list entry ch[k] (from 0) addresses instrument channel k+1.
C21_ChannelsOfModel ==
  ( /\ built.class \in {"RigolDS8000R", "RigolDG5000Pro"}
    /\ in(BuiltModel, BuiltTable) )
    => /\ built.ok
       /\ Len(built.submodules) = TableChannels
       /\ \A k \in 0..(TableChannels - 1) :
            /\ built.submodules[k + 1].channel = k + 1
            /\ built.submodules[k + 1].name = SubmoduleName[k + 1]

C21_Witness ==
  /\ built.class = "RigolDG5000Pro"
  /\ BuiltModel = Some("DG5354 Pro")
  /\ built.ok
  /\ Len(built.submodules) = 4
  /\ built.submodules[4] = [name |-> "ch4", channel |-> 4, bandwidth_limit |-> {}]

\* C22: for every recognized DS8000-R model the values the bandwidth_limit
\* parameter of a channel accepts are exactly the bandwidth-limit options of
\* the capability table for that model: 20M, 250M, 500M, OFF for DS8104-R,
\* and 20M, 250M, OFF for DS8034-R.
C22_BandwidthLimitOfModel ==
  (built.class = "RigolDS8000R" /\ in(BuiltModel, MODELS))
    => /\ built.ok
       /\ BuiltModel.val = "DS8104-R" =>
            built.bw_limit = {"20M", "250M", "500M", "OFF"}
       /\ BuiltModel.val = "DS8034-R" =>
            built.bw_limit = {"20M", "250M", "OFF"}
       /\ \A k \in 1..Len(built.submodules) :
            built.submodules[k].bandwidth_limit = built.bw_limit

\* C23: for every channel of the generator and every v of normal, inverted,
\* a get of output_sync_polarity that follows the set of v on the same
\* channel returns v.
C23_SyncPolarityRoundTrip ==
  [][ ( /\ last.op = "output_sync_polarity"
        /\ last'.op = "output_sync_polarity?"
        /\ last'.ch = last.ch )
        => last'.arg = last.arg ]_vars

\* the value-mapped parameters of the oscilloscope and their mappings
MappedParameters ==
  [timebase_mode |-> timebase_mode_map,
   timebase_href_mode |-> timebase_href_mode_map,
   waveform_mode |-> waveform_mode_map,
   waveform_format |-> waveform_format_map,
   units |-> units_map,
   impedance |-> impedance_map]

\* the name of the get of a parameter in the record of the last operation
GetOf ==
  [timebase_mode |-> "timebase_mode?",
   timebase_href_mode |-> "timebase_href_mode?",
   waveform_mode |-> "waveform_mode?",
   waveform_format |-> "waveform_format?",
   units |-> "units?",
   impedance |-> "impedance?"]

\* C24: for every value-mapped parameter of the oscilloscope and every user
\* value v of its mapping, the set of v writes the token of v, a get that
\* follows the set (on the same channel) returns v, and the mapping is
\* injective.
C24_MappedRoundTrip ==
  /\ [](\A p \in DOMAIN MappedParameters :
          /\ \A v \in DOMAIN MappedParameters[p], w \in DOMAIN MappedParameters[p] :
               MappedParameters[p][v] = MappedParameters[p][w] => v = w
          /\ last.op = p =>
               /\ Len(log) = 1
               /\ log[1].op = "write"
               /\ log[1].arg = MappedParameters[p][last.arg])
  /\ [][\A p \in DOMAIN MappedParameters :
          (last.op = p /\ last'.op = GetOf[p] /\ last'.ch = last.ch)
            => (last'.ok /\ last'.arg = last.arg)]_vars

C24_Witness ==
  /\ last.op = "units?"
  /\ last.ch = 2
  /\ last.arg = "ampere"
  /\ scope.units = <<"VOLT", "AMP", "VOLT", "VOLT">>
  /\ scope.timebase_href_mode = "LB"
  /\ scope.impedance[1] = "FIFT"

\* C25: after stop() has been called, get_trace(ch) completes without an
\* error for every channel number ch of the driver.
C25_GetTraceAfterStop ==
  [][(last.op = "stop" /\ last'.op = "get_trace") => last'.ok]_vars

\* the screen-capture format that matches the extension of a file name
FormatOf(fname) == IF endswith(fname, ".png") THEN "PNG" ELSE "BMP"

\* C26: screen_capture(fname) with fname ending in '.png' (or '.bmp') has
\* put the screen-capture format of the instrument to PNG (or BMP) when
\* ':HCOPy:SDUMp:DATA?' is written, the format command being written before
\* the query, so the block read was produced in the format of the extension.
C26_FormatMatchesExtension ==
  (last.op = "screen_capture" /\ last.arg \in {"./test.png", "./test.bmp"})
    => /\ Len(log) = 3
       /\ log[1].arg = FormatOf(last.arg)
       /\ log[2].cmd = ":HCOPy:SDUMp:DATA?"
       /\ gen.format = FormatOf(last.arg)

\* the names of the waveform sources by channel number
SourceOfChannel == <<"CHAN1", "CHAN2", "CHAN3", "CHAN4">>

\* the positions in the traffic of the last operation of the writes of the
\* waveform source
SourceWrites == {i \in Writes : log[i].cmd = ":WAVeform:SOURce {}"}

\* C27: with a single caller, a raw trace read of channel i that reaches the
\* transfer writes ':WAVeform:SOURce CHAN{i}' and directly after it
\* ':WAVeform:DATA?', it writes the source only once, and it calls read_raw
\* directly after the data query, with no write in between.
C27_SourceThenDataThenRead ==
  (last.op \in {"trace_raw", "trace"})
    => /\ (scope.trig = "STOP" /\ scope.mode = "RAW") =>
            Cardinality(DataQueries) = 1
       /\ Cardinality(SourceWrites) = Cardinality(DataQueries)
       /\ \A q \in DataQueries :
            /\ q > 1
            /\ q < Len(log)
            /\ log[q - 1] = write(":WAVeform:SOURce {}", 0,
                                  SourceOfChannel[last.ch])
            /\ log[q + 1] = read_raw
            /\ scope.source = SourceOfChannel[last.ch]

C27_Witness ==
  /\ last.op = "trace_raw"
  /\ last.ch = 2
  /\ last.ok
  /\ log[5] = write(":WAVeform:SOURce {}", 0, "CHAN2")
  /\ log[6] = write(":WAVeform:DATA?", 0, "")
  /\ log[7] = read_raw

\* the last operation was a trace read of a halted oscilloscope whose
\* waveform mode is not RAW
HaltedNotRaw ==
  /\ last.op \in {"trace_raw", "trace"}
  /\ scope.trig = "STOP"
  /\ scope.mode \in {"NORM", "MAX"}

\* C28: a raw trace read of a halted oscilloscope whose waveform mode is
\* normal or maximum raises before the waveform source is changed and before
\* ':WAVeform:DATA?' is written; the trigger status is asked for and checked
\* before the waveform mode, which a running oscilloscope is never asked for.
C28_ModeCheckedAfterState ==
  /\ [](HaltedNotRaw =>
          /\ ~last.ok
          /\ last.err = "RuntimeError"
          /\ SourceWrites = {} /\ DataQueries = {} /\ DataReads = {}
          /\ log = ask(":TRIGger:STATus?", 0) \o ask(":WAVeform:MODE?", 0))
  /\ []((last.op \in {"trace_raw", "trace"} /\ scope.trig # "STOP") =>
          log = ask(":TRIGger:STATus?", 0))
  /\ [][HaltedNotRaw' => scope'.source = scope.source]_vars

C28_Witness ==
  /\ last.op = "trace_raw"
  /\ last.ch = 3
  /\ scope.trig = "STOP"
  /\ scope.mode = "MAX"
  /\ last.err = "RuntimeError"
  /\ Len(log) = 4
  /\ log[3].cmd = ":WAVeform:MODE?"
  /\ scope.source = "CHAN1"

\* the file names that end in neither '.png' nor '.bmp'
InvalidNames == {"./test.txt"}

\* C29: screen_capture(fname) with a file name that ends in neither '.png'
\* nor '.bmp' raises ValueError before any command is written to or read
\* from the instrument, and no file is created or modified.
C29_InvalidNameNoTraffic ==
  /\ []((last.op = "screen_capture" /\ last.arg \in InvalidNames) =>
          /\ last.err = "ValueError"
          /\ log = <<>>
          /\ ~files[last.arg].exists)
  /\ [][(last'.op = "screen_capture" /\ last'.arg \in InvalidNames) =>
          (files' = files /\ undrained' = undrained /\ gen' = gen)]_vars

C29_Witness ==
  /\ last.op = "screen_capture"
  /\ last.arg = "./test.txt"
  /\ last.err = "ValueError"
  /\ log = <<>>
  /\ files["./test.png"].exists
  /\ ~files["./test.txt"].exists

\* the digit count of the screen dump is no digit, or the length the header
\* declares differs from the length of the stripped payload
DumpMalformed ==
  \/ BadDigitCount(gen.image)
  \/ \E p \in CapturePayloads \ {<<>>} :
       \E d \in 0..9 : d # Len(p) /\ gen.image = <<35, 49, 48 + d>> \o p

\* C30: a screen capture that fails while decoding, on a malformed header
\* or on a declared length that differs from the length of the stripped
\* payload, neither creates nor overwrites the target file; a screen capture
\* that succeeds leaves exactly the decoded payload in it.
C30_FileOnlyAfterLengthCheck ==
  /\ []((last.op = "screen_capture" /\ last.arg \notin InvalidNames
           /\ DumpMalformed) => ~last.ok)
  /\ []((last.op = "screen_capture" /\ last.ok) =>
          /\ files[last.arg] = [exists |-> TRUE, data |-> last.val]
          /\ \A p \in CapturePayloads :
               gen.image = Encode(p, 1) \o <<10>> => files[last.arg].data = p)
  /\ [][(last'.op = "screen_capture" /\ ~last'.ok) => files' = files]_vars

C30_Witness ==
  /\ last.op = "screen_capture"
  /\ last.arg = "./test.png"
  /\ last.err = "AssertionError"
  /\ gen.image = <<35, 49, 51, 66, 77>>
  /\ files["./test.png"] = [exists |-> TRUE, data |-> <<137, 80>>]

====
